---- MODULE Spec2Model ----
(***************************************************************************)
(* State-machine model of js/main.js (class PortfolioApp and the           *)
(* top-level listeners).  Browser events are the actions; each action is   *)
(* one event handler run to completion.                                    *)
(*                                                                         *)
(* Units: rotation x and y are counted in steps of 0.001 rad, rotation z   *)
(* in steps of 0.0001 rad, so rotZ = scrollY models scrolled * 0.0001.     *)
(***************************************************************************)
EXTENDS Integers, Sequences, FiniteSets, TLC

VARIABLES
    \* ---- App Orchestrator / Project Renderer
    initPc,            \* where async init() stands: awaitFetch, awaitJson, done
    response,          \* the body of the resolved fetch while response.json() is pending
    projects,          \* this.projects
    cards,             \* children of #projects-container: <<title, animationDelay index>>
    \* ---- Particle Scene
    innerWidth,        \* window.innerWidth
    webglSupported,    \* what isWebGLSupported() returns on this device
    canvasPresent,     \* whether #webgl-canvas exists
    isWebGLEnabled,    \* this.isWebGLEnabled
    webglScene,        \* this.webglScene is non-null
    resizeInstalled,   \* the resize listener of initWebGL is registered
    canvasDisplay,     \* canvas.style.display
    cameraAspect,      \* width the camera aspect was last computed for (0: none)
    rotX, rotY, rotZ,  \* particles.rotation
    renders,           \* calls of renderer.render
    docHidden,         \* document.hidden
    \* ---- Scroll Coordinator / Navigation
    scrollInstalled,   \* the scroll listener of setupScrollEffects is registered
    ticking,           \* the closure variable of setupScrollEffects
    rafQueue,          \* callbacks handed to requestAnimationFrame, not yet run
    scrollY,           \* window.scrollY = window.pageYOffset
    heroTransform,     \* scroll position the hero translateY was computed from (-1: unset)
    navbarBg,          \* navbar.style.background: "", "solid", "glass"
    activeLinks,       \* nav links carrying the class active
    \* per display-frame interval bookkeeping (reset when a frame starts)
    scrollEvents,      \* scroll events since the last frame
    effectEvents,      \* of these, the ones the setupScrollEffects listener saw
    handleRuns,        \* runs of handleScrollEffects in the last frame
    heroUpdates, zRotUpdates, navUpdates, headerUpdates,
    \* ---- Contact Form
    required,          \* the fields carrying the required attribute
    values,            \* field.value per field
    marks,             \* the subset of {is-valid, is-invalid} in field.classList
    feedback,          \* textContent of the field's .invalid-feedback sibling
    toastShows,        \* calls of showToast
    timers,            \* pending setTimeout(…, 1000) callbacks: their mailto data
    location,          \* mailto data of the last navigation (<< >>: none)
    navigations,       \* assignments to window.location.href
    resets,            \* calls of form.reset()
    lastOp,            \* the last form handler that ran
    \* ---- Theme Store
    currentTheme,      \* this.currentTheme
    dataTheme,         \* the data-theme attribute of the document element
    storedTheme,       \* localStorage item portfolio-theme
    themeIcon,         \* className of the theme toggle icons
    bodyTransition,    \* document.body.style.transition
    transitionTimers,  \* pending setTimeout(…, 300) callbacks of toggleTheme
    themeTrail,        \* the theme states before the last toggles (at most two)
    \* ---- Viewport Observer
    observed,          \* elements handed to observer.observe
    revealed,          \* elements carrying the class fade-in-up
    skillTimers,       \* pending setTimeout(…, 300) callbacks of animateSkillBar
    barWidth           \* style.width of the skill item's progress bar

pageVars == <<initPc, response, projects, cards>>
sceneVars == <<innerWidth, webglSupported, canvasPresent, isWebGLEnabled, webglScene,
               resizeInstalled, canvasDisplay, cameraAspect, rotX, rotY, rotZ, renders,
               docHidden>>
scrollVars == <<scrollInstalled, ticking, rafQueue, scrollY, heroTransform, navbarBg,
                activeLinks, scrollEvents, effectEvents, handleRuns, heroUpdates,
                zRotUpdates, navUpdates, headerUpdates>>
formVars == <<required, values, marks, feedback, toastShows, timers, location,
              navigations, resets, lastOp>>
themeVars == <<currentTheme, dataTheme, storedTheme, themeIcon, bodyTransition,
               transitionTimers, themeTrail>>
revealVars == <<observed, revealed, skillTimers, barWidth>>
vars == <<pageVars, sceneVars, scrollVars, formVars, themeVars, revealVars>>

(***************************************************************************)
(* Bounds of the model                                                     *)
(***************************************************************************)
MaxScrollEvents == 3   \* scroll events modelled between two display frames
MaxRenders == 2        \* renderer.render calls modelled
MaxSubmits == 2        \* successful submissions modelled
MaxLen == 5            \* longest field value in the field-validation model
MaxThemeTimers == 2    \* pending transition timers of toggleTheme modelled
MaxSkillTimers == 2    \* pending timers of animateSkillBar modelled

(***************************************************************************)
(* Program constants                                                       *)
(***************************************************************************)
Breakpoint == 768      \* window.innerWidth > 768
NavOffset == 100       \* window.scrollY + 100
HeaderThreshold == 50  \* window.scrollY > 50
RotXStep == 1          \* rotation.x += 0.001
RotYStep == 2          \* rotation.y += 0.002

(***************************************************************************)
(* The page the script runs on                                             *)
(***************************************************************************)
Widths == {Breakpoint - 268, Breakpoint, Breakpoint + 256}
InnerHeight == 600      \* window.innerHeight of the modelled viewport
ScrollPositions == {0, 50, 51, 650, 1150}
\* section[id] elements in document order: id, offsetTop, offsetHeight.
\* The span 1200..1299 belongs to no section.
Sections == << [id |-> "home", top |-> 0, height |-> 700],
               [id |-> "about", top |-> 700, height |-> 500],
               [id |-> "contact", top |-> 1300, height |-> 600] >>

Count(q, x) == Cardinality({i \in 1..Len(q) : q[i] = x})

(***************************************************************************)
(* Project Renderer                                                        *)
(***************************************************************************)
\* What GET data/projects.json can resolve with: any HTTP status (ok is
\* response.ok) and a body that is a JSON array of projects (named by
\* title), JSON of another type, or text response.json() rejects.
NoResponse == [ok |-> TRUE, kind |-> "none", items |-> << >>]
BodyKinds == { [kind |-> "array", items |-> << >>],
               [kind |-> "array", items |-> <<"p1", "p2">>],
               [kind |-> "nonarray", items |-> << >>],
               [kind |-> "unparsable", items |-> << >>] }
Bodies == { [ok |-> o, kind |-> b.kind, items |-> b.items] :
              o \in BOOLEAN, b \in BodyKinds }

fallbackProjects == <<"JAVA IN MY STYLE", "JAVASCRIPT INTERMEDIATE IN MY STYLE",
                      "ML IN MY STYLE", "AI IN MY STYLE">>

\* createProjectCard(project, index): the card and its animation delay,
\* in units of 0.1s.
createProjectCard(project, index) == [title |-> project, delay |-> index]

\* renderProjects(): the container's children after clearing it and
\* appending one card per project; forEach indexes from 0.
renderProjects_DelayFromOne(ps) == [i \in 1..Len(ps) |-> createProjectCard(ps[i], i)]

renderProjects(ps) == [i \in 1..Len(ps) |-> createProjectCard(ps[i], i - 1)]

(***************************************************************************)
(* Particle Scene                                                          *)
(***************************************************************************)
\* One call of animate() with the flag value it reads.  st holds the frame
\* queue, rotation x and y, and the render count.
animate(enabled, st) ==
    IF enabled
    THEN [queue |-> Append(st.queue, "animate"),
          rx |-> st.rx + RotXStep,
          ry |-> st.ry + RotYStep,
          rn |-> st.rn + 1]
    ELSE st

RECURSIVE animateTimes(_, _, _)
animateTimes(n, enabled, st) ==
    IF n = 0 THEN st ELSE animateTimes(n - 1, enabled, animate(enabled, st))

\* initWebGL(): returns at once without the canvas; otherwise builds the
\* scene, calls animate() once, registers the resize listener and stores
\* the scene.  The flag animate() reads is the one set before the call.
initWebGL ==
    IF ~canvasPresent
    THEN UNCHANGED <<rafQueue, rotX, rotY, renders, cameraAspect, resizeInstalled,
                     webglScene>>
    ELSE LET st == animate(isWebGLEnabled,
                           [queue |-> rafQueue, rx |-> rotX, ry |-> rotY, rn |-> renders])
         IN /\ rafQueue' = st.queue
            /\ rotX' = st.rx
            /\ rotY' = st.ry
            /\ renders' = st.rn
            /\ cameraAspect' = innerWidth
            /\ resizeInstalled' = TRUE
            /\ webglScene' = TRUE

\* setupWebGL(): initWebGL() first, the flag second.
setupWebGL ==
    IF innerWidth > Breakpoint /\ webglSupported
    THEN initWebGL /\ isWebGLEnabled' = TRUE
    ELSE UNCHANGED <<rafQueue, rotX, rotY, renders, cameraAspect, resizeInstalled,
                     webglScene, isWebGLEnabled>>

\* setupScrollEffects(): ticking = false and the listener registered.
setupScrollEffects ==
    /\ ticking' = FALSE
    /\ scrollInstalled' = TRUE

\* init() after "await this.loadProjects()": the two remaining steps.
InitContinues ==
    /\ setupWebGL
    /\ setupScrollEffects
    /\ initPc' = "done"
    /\ UNCHANGED <<innerWidth, webglSupported, canvasPresent, canvasDisplay, rotZ,
                   docHidden, scrollY, heroTransform, navbarBg, activeLinks,
                   scrollEvents, effectEvents, handleRuns, heroUpdates, zRotUpdates,
                   navUpdates, headerUpdates>>

(***************************************************************************)
(* loadProjects(): the fetch settles                                       *)
(***************************************************************************)
\* fetch() resolves; response.json() is now pending.
FetchResolved(body) ==
    /\ initPc = "awaitFetch"
    /\ initPc' = "awaitJson"
    /\ response' = body
    /\ UNCHANGED <<projects, cards, sceneVars, scrollVars, formVars, themeVars,
                   revealVars>>

\* fetch() rejects: the catch block renders the fallback, init() goes on.
FetchRejected_Uncaught ==
    /\ initPc = "awaitFetch"
    /\ initPc' = "failed"
    /\ UNCHANGED <<response, projects, cards, sceneVars, scrollVars, formVars,
                   themeVars, revealVars>>

FetchRejected ==
    /\ initPc = "awaitFetch"
    /\ projects' = fallbackProjects
    /\ cards' = renderProjects(fallbackProjects)
    /\ InitContinues
    /\ UNCHANGED <<response, formVars, themeVars,
                   revealVars>>

\* response.json() resolves with an array: it is rendered, init() goes on.
JsonParsed ==
    /\ initPc = "awaitJson"
    /\ response.kind = "array"
    /\ projects' = response.items
    /\ cards' = renderProjects(response.items)
    /\ InitContinues
    /\ UNCHANGED <<response, formVars, themeVars,
                   revealVars>>

\* response.json() rejects: the catch block renders the fallback.
JsonFailed ==
    /\ initPc = "awaitJson"
    /\ response.kind = "unparsable"
    /\ projects' = fallbackProjects
    /\ cards' = renderProjects(fallbackProjects)
    /\ InitContinues
    /\ UNCHANGED <<response, formVars, themeVars,
                   revealVars>>

\* response.json() resolves with JSON that is no array: renderProjects()
\* empties the container and throws at this.projects.forEach; the catch
\* block renders the fallback.
JsonNotArray ==
    /\ initPc = "awaitJson"
    /\ response.kind = "nonarray"
    /\ projects' = fallbackProjects
    /\ cards' = renderProjects(fallbackProjects)
    /\ InitContinues
    /\ UNCHANGED <<response, formVars, themeVars,
                   revealVars>>

(***************************************************************************)
(* Navigation: the scroll listener of setupNavigation                      *)
(***************************************************************************)
\* updateActiveNavItem(): sections.forEach from section i on; a section
\* whose span holds pos clears every nav link and marks its own.
RECURSIVE updateActiveNavItem(_, _, _)
updateActiveNavItem(i, pos, active) ==
    IF i > Len(Sections) THEN active
    ELSE updateActiveNavItem(i + 1, pos,
            IF pos >= Sections[i].top /\ pos < Sections[i].top + Sections[i].height
            THEN {Sections[i].id}
            ELSE active)

\* updateHeaderBackground()
updateHeaderBackground(y) == IF y > HeaderThreshold THEN "solid" ELSE "glass"

\* The listener: both updates, on every scroll event.
NavigationScrollListener ==
    /\ activeLinks' = updateActiveNavItem(1, scrollY' + NavOffset, activeLinks)
    /\ navbarBg' = updateHeaderBackground(scrollY')
    /\ navUpdates' = navUpdates + 1
    /\ headerUpdates' = headerUpdates + 1

(***************************************************************************)
(* Scroll Coordinator                                                      *)
(***************************************************************************)
\* handleScrollEffects() run n times in one frame at scroll position y.
HeroApplies(y) == y < InnerHeight
ZRotApplies == webglScene /\ isWebGLEnabled

handleScrollEffects(n) ==
    /\ handleRuns' = n
    /\ heroUpdates' = IF HeroApplies(scrollY) THEN n ELSE 0
    /\ heroTransform' = IF n > 0 /\ HeroApplies(scrollY) THEN scrollY ELSE heroTransform
    /\ zRotUpdates' = IF ZRotApplies THEN n ELSE 0
    /\ rotZ' = IF n > 0 /\ ZRotApplies THEN scrollY ELSE rotZ

\* The listener of setupScrollEffects; it is registered once init() is done.
ScrollEffectsListener_NoGuard ==
    /\ rafQueue' = Append(rafQueue, "scrollUpdate")
    /\ ticking' = TRUE
    /\ effectEvents' = effectEvents + 1

ScrollEffectsListener_TickingNeverSet ==
    /\ effectEvents' = effectEvents + 1
    /\ IF ~ticking
       THEN /\ rafQueue' = Append(rafQueue, "scrollUpdate")
            /\ UNCHANGED ticking
       ELSE UNCHANGED <<rafQueue, ticking>>

ScrollEffectsListener ==
    /\ effectEvents' = effectEvents + 1
    /\ IF ~ticking
       THEN /\ rafQueue' = Append(rafQueue, "scrollUpdate")
            /\ ticking' = TRUE
       ELSE UNCHANGED <<rafQueue, ticking>>

\* A scroll event to position y: every registered scroll listener runs.
ScrollEvent(y) ==
    /\ scrollEvents < MaxScrollEvents
    /\ scrollY' = y
    /\ scrollEvents' = scrollEvents + 1
    /\ NavigationScrollListener
    /\ IF scrollInstalled
       THEN ScrollEffectsListener
       ELSE UNCHANGED <<rafQueue, ticking, effectEvents>>
    /\ UNCHANGED <<scrollInstalled, heroTransform, handleRuns, heroUpdates, zRotUpdates>>
    /\ UNCHANGED <<pageVars, sceneVars, formVars, themeVars,
                   revealVars>>

\* A display frame: the browser runs every callback queued for it.  The
\* animate callbacks re-queue themselves while the flag is set; the scroll
\* callback runs handleScrollEffects and clears ticking.  Hidden documents
\* get no frames.
Frame ==
    LET nA == Count(rafQueue, "animate")
        nS == Count(rafQueue, "scrollUpdate")
        st == animateTimes(nA, isWebGLEnabled,
                           [queue |-> << >>, rx |-> rotX, ry |-> rotY, rn |-> renders])
    IN /\ ~docHidden
       /\ st.rn <= MaxRenders
       /\ rafQueue' = st.queue
       /\ rotX' = st.rx
       /\ rotY' = st.ry
       /\ renders' = st.rn
       /\ handleScrollEffects(nS)
       /\ ticking' = IF nS > 0 THEN FALSE ELSE ticking
       /\ scrollEvents' = 0
       /\ effectEvents' = 0
       /\ navUpdates' = 0
       /\ headerUpdates' = 0
       /\ UNCHANGED <<innerWidth, webglSupported, canvasPresent, isWebGLEnabled,
                      webglScene, resizeInstalled, canvasDisplay, cameraAspect,
                      docHidden, scrollInstalled, scrollY, navbarBg, activeLinks>>
       /\ UNCHANGED <<pageVars, formVars, themeVars,
                      revealVars>>

(***************************************************************************)
(* Particle Scene: resize and visibility                                   *)
(***************************************************************************)
\* The resize listener registered by initWebGL.
ResizeListener ==
    IF innerWidth' <= Breakpoint
    THEN /\ isWebGLEnabled' = FALSE
         /\ canvasDisplay' = "none"
         /\ UNCHANGED cameraAspect
    ELSE IF ~isWebGLEnabled /\ webglSupported
    THEN /\ isWebGLEnabled' = TRUE
         /\ canvasDisplay' = "block"
         /\ cameraAspect' = innerWidth'
    ELSE UNCHANGED <<isWebGLEnabled, canvasDisplay, cameraAspect>>

\* The window is resized to width w.
Resize(w) ==
    /\ innerWidth' = w
    /\ IF resizeInstalled
       THEN ResizeListener
       ELSE UNCHANGED <<isWebGLEnabled, canvasDisplay, cameraAspect>>
    /\ UNCHANGED <<webglSupported, canvasPresent, webglScene, resizeInstalled,
                   rotX, rotY, rotZ, renders, docHidden>>
    /\ UNCHANGED <<pageVars, scrollVars, formVars, themeVars,
                   revealVars>>

\* "new PortfolioApp()" is not stored anywhere: window.portfolioApp never
\* refers to the app.
WindowPortfolioApp == FALSE

\* The visibilitychange listener.
VisibilityListener ==
    IF WindowPortfolioApp /\ isWebGLEnabled
    THEN isWebGLEnabled' = ~docHidden'
    ELSE UNCHANGED isWebGLEnabled

\* The tab is hidden or shown.
VisibilityChange ==
    /\ docHidden' = ~docHidden
    /\ VisibilityListener
    /\ UNCHANGED <<innerWidth, webglSupported, canvasPresent, webglScene,
                   resizeInstalled, canvasDisplay, cameraAspect, rotX, rotY, rotZ,
                   renders>>
    /\ UNCHANGED <<pageVars, scrollVars, formVars, themeVars,
                   revealVars>>

(***************************************************************************)
(* Contact Form                                                            *)
(***************************************************************************)
\* input and textarea elements of #contactForm in document order.
FieldOrder == <<"contactName", "contactEmail", "contactMessage">>
Fields == {FieldOrder[i] : i \in 1..Len(FieldOrder)}

\* field.type of each element.
FieldType(f) ==
    CASE f = "contactName" -> "text"
      [] f = "contactEmail" -> "email"
      [] f = "contactMessage" -> "textarea"

\* Every field is followed by an .invalid-feedback element.
HasFeedback(f) == TRUE

\* Field values are strings over these characters; " " is white space.
Chars == {"a", "@", ".", " "}
IsSpace(c) == c = " "
Str(n) == UNION {[1..k -> Chars] : k \in 0..n}

RequiredMsg == "This field is required."
EmailMsg == "Please enter a valid email address."

\* String.prototype.trim()
Trim_Identity(s) == s
RECURSIVE TrimLeft(_)
TrimLeft(s) == IF s # << >> /\ IsSpace(Head(s)) THEN TrimLeft(Tail(s)) ELSE s
RECURSIVE TrimRight(_)
TrimRight(s) ==
    IF s # << >> /\ IsSpace(s[Len(s)]) THEN TrimRight(SubSeq(s, 1, Len(s) - 1)) ELSE s
Trim(s) == TrimRight(TrimLeft(s))

\* [^\s@]+ matches s[a..b]
NoSpaceAt(s, a, b) == a <= b /\ \A k \in a..b : ~IsSpace(s[k]) /\ s[k] # "@"

\* /^[^\s@]+@[^\s@]+\.[^\s@]+$/.test(s): some "@" at i and "." at j split s
\* into three non-empty runs of [^\s@].
emailRegexTest(s) ==
    \E i \in 1..Len(s) : \E j \in 1..Len(s) :
        /\ s[i] = "@"
        /\ s[j] = "."
        /\ NoSpaceAt(s, 1, i - 1)
        /\ NoSpaceAt(s, i + 1, j - 1)
        /\ NoSpaceAt(s, j + 1, Len(s))

\* validateField(field), the verdict: isValid and message.
Verdict(f, raw) ==
    LET value == Trim(raw)
    IN IF f \in required /\ value = << >>
       THEN [isValid |-> FALSE, message |-> RequiredMsg]
       ELSE IF FieldType(f) = "email" /\ value # << >> /\ ~emailRegexTest(value)
       THEN [isValid |-> FALSE, message |-> EmailMsg]
       ELSE [isValid |-> TRUE, message |-> ""]

\* validateField(field), the whole function: dom holds the class marks and
\* feedback texts of all fields, vals their values; the result is the
\* returned verdict and the changed dom.
validateField(f, vals, dom) ==
    LET v == Verdict(f, vals[f])
    IN IF v.isValid
       THEN [isValid |-> TRUE,
             marks |-> [dom.marks EXCEPT ![f] = (@ \ {"is-invalid"}) \cup {"is-valid"}],
             feedback |-> dom.feedback]
       ELSE [isValid |-> FALSE,
             marks |-> [dom.marks EXCEPT ![f] = (@ \ {"is-valid"}) \cup {"is-invalid"}],
             feedback |-> IF HasFeedback(f)
                          THEN [dom.feedback EXCEPT ![f] = v.message]
                          ELSE dom.feedback]

\* validateForm(form): forEach over the required fields from index i on,
\* acc is isValid so far with the dom as changed so far.
RECURSIVE validateFormShortCircuit(_, _, _)
validateFormShortCircuit(i, vals, acc) ==
    IF i > Len(FieldOrder) \/ ~acc.isValid THEN acc
    ELSE IF FieldOrder[i] \notin required THEN validateFormShortCircuit(i + 1, vals, acc)
    ELSE LET r == validateField(FieldOrder[i], vals, acc)
         IN validateFormShortCircuit(i + 1, vals,
                [isValid |-> acc.isValid /\ r.isValid,
                 marks |-> r.marks, feedback |-> r.feedback])

RECURSIVE validateForm(_, _, _)
validateForm(i, vals, acc) ==
    IF i > Len(FieldOrder) THEN acc
    ELSE IF FieldOrder[i] \notin required THEN validateForm(i + 1, vals, acc)
    ELSE LET r == validateField(FieldOrder[i], vals, acc)
         IN validateForm(i + 1, vals,
                [isValid |-> acc.isValid /\ r.isValid,
                 marks |-> r.marks, feedback |-> r.feedback])

Dom == [isValid |-> TRUE, marks |-> marks, feedback |-> feedback]

\* The blur listener of field f.
BlurEvent(f) ==
    LET r == validateField(f, values, Dom)
    IN /\ marks' = r.marks
       /\ feedback' = r.feedback
       /\ lastOp' = [op |-> "blur", field |-> f]
       /\ UNCHANGED <<required, values, toastShows, timers, location, navigations,
                      resets>>
       /\ UNCHANGED <<pageVars, sceneVars, scrollVars, themeVars,
                      revealVars>>

\* The input listener of field f, after the user changed its value to v.
InputListener_Always(f) ==
    LET r == validateField(f, values', Dom)
    IN marks' = r.marks /\ feedback' = r.feedback

InputListener(f) ==
    IF "is-invalid" \in marks[f]
    THEN LET r == validateField(f, values', Dom)
         IN marks' = r.marks /\ feedback' = r.feedback
    ELSE UNCHANGED <<marks, feedback>>

InputEvent(f, v) ==
    /\ values' = [values EXCEPT ![f] = v]
    /\ InputListener(f)
    /\ lastOp' = [op |-> "input", field |-> f]
    /\ UNCHANGED <<required, toastShows, timers, location, navigations, resets>>
    /\ UNCHANGED <<pageVars, sceneVars, scrollVars, themeVars,
                   revealVars>>

\* encodeURIComponent, per character of the strings modelled; the words of
\* the literal text are single tokens of unreserved characters.
encodeChar(c) ==
    CASE c = " " -> "%20"
      [] c = "@" -> "%40"
      [] c = ":" -> "%3A"
      [] c = "\n" -> "%0A"
      [] OTHER -> c
encodeURIComponent(str) == [i \in 1..Len(str) |-> encodeChar(str[i])]

\* `Portfolio Contact from ${name}`
SubjectText(name) == <<"Portfolio", " ", "Contact", " ", "from", " ">> \o name
\* `Name: ${name}\nEmail: ${email}\n\nMessage:\n${message}`
BodyText(name, email, message) ==
    <<"Name", ":", " ">> \o name \o <<"\n", "Email", ":", " ">> \o email
        \o <<"\n", "\n", "Message", ":", "\n">> \o message

\* mailtoLink: mailto:<to>?subject=<subject>&body=<body>
mailtoLink(name, email, message) ==
    [to |-> "syed.asadullah@example.com",
     subject |-> encodeURIComponent(SubjectText(name)),
     body |-> encodeURIComponent(BodyText(name, email, message))]

\* The constants of one handleFormSubmission call, which its timer callback
\* closes over: name, email, message and the link built from them.
MailtoData(vals) ==
    [name |-> vals["contactName"], email |-> vals["contactEmail"],
     message |-> vals["contactMessage"],
     link |-> mailtoLink(vals["contactName"], vals["contactEmail"],
                         vals["contactMessage"])]
NoLocation == [name |-> <<"-">>, email |-> <<"-">>, message |-> <<"-">>,
               link |-> [to |-> "", subject |-> << >>, body |-> << >>]]

\* handleFormSubmission(form): toast, timer, then reset and clearing of
\* the marks, all in the submit handler.
handleFormSubmission_NoReset ==
    /\ toastShows' = toastShows + 1
    /\ timers' = Append(timers, MailtoData(values))
    /\ UNCHANGED <<values, resets>>
    /\ marks' = [f \in Fields |-> {}]

handleFormSubmission ==
    /\ toastShows' = toastShows + 1
    /\ timers' = Append(timers, MailtoData(values))
    /\ values' = [f \in Fields |-> << >>]
    /\ resets' = resets + 1
    /\ marks' = [f \in Fields |-> {}]

\* The submit listener.
SubmitEvent_Unchecked ==
    LET r == validateForm(1, values, Dom)
    IN /\ toastShows < MaxSubmits
       /\ handleFormSubmission
       /\ feedback' = r.feedback
       /\ lastOp' = [op |-> "submitted", field |-> ""]
       /\ UNCHANGED <<required, location, navigations>>
       /\ UNCHANGED <<pageVars, sceneVars, scrollVars, themeVars,
                      revealVars>>

SubmitEvent ==
    LET r == validateForm(1, values, Dom)
    IN /\ IF r.isValid
          THEN /\ toastShows < MaxSubmits
               /\ handleFormSubmission
               /\ feedback' = r.feedback
               /\ lastOp' = [op |-> "submitted", field |-> ""]
          ELSE /\ marks' = r.marks
               /\ feedback' = r.feedback
               /\ lastOp' = [op |-> "rejected", field |-> ""]
               /\ UNCHANGED <<values, toastShows, timers, resets>>
       /\ UNCHANGED <<required, location, navigations>>
       /\ UNCHANGED <<pageVars, sceneVars, scrollVars, themeVars,
                      revealVars>>

\* The oldest 1000ms timer fires: window.location.href = mailtoLink.
MailtoTimer_ReadsFormLate ==
    /\ timers # << >>
    /\ location' = MailtoData(values)
    /\ timers' = Tail(timers)
    /\ navigations' = navigations + 1
    /\ lastOp' = [op |-> "navigated", field |-> ""]
    /\ UNCHANGED <<required, values, marks, feedback, toastShows, resets>>
    /\ UNCHANGED <<pageVars, sceneVars, scrollVars, themeVars,
                   revealVars>>

MailtoTimer ==
    /\ timers # << >>
    /\ location' = Head(timers)
    /\ timers' = Tail(timers)
    /\ navigations' = navigations + 1
    /\ lastOp' = [op |-> "navigated", field |-> ""]
    /\ UNCHANGED <<required, values, marks, feedback, toastShows, resets>>
    /\ UNCHANGED <<pageVars, sceneVars, scrollVars, themeVars,
                   revealVars>>

(***************************************************************************)
(* Theme Store                                                             *)
(***************************************************************************)
\* What localStorage.getItem('portfolio-theme') can return at load: null,
\* or any string, of which these stand for the cases.
Null == "<null>"
StoredValues == {Null, "", "dark", "light", "blue"}

\* setTheme(theme), with store the localStorage item before the call: the
\* theme state after it.
setTheme_NoPersist(theme, store) ==
    [currentTheme |-> theme, dataTheme |-> theme, storedTheme |-> store,
     themeIcon |-> IF theme = "dark" THEN "bi bi-sun" ELSE "bi bi-moon-stars"]

setTheme(theme, store) ==
    [currentTheme |-> theme, dataTheme |-> theme, storedTheme |-> theme,
     themeIcon |-> IF theme = "dark" THEN "bi bi-sun" ELSE "bi bi-moon-stars"]

\* setupTheme(): localStorage.getItem('portfolio-theme') || 'dark'; null and
\* the empty string are falsy.
savedTheme(store) == IF store = Null \/ store = "" THEN "dark" ELSE store
setupTheme(store) == setTheme(savedTheme(store), store)

ThemeState == [currentTheme |-> currentTheme, dataTheme |-> dataTheme,
               storedTheme |-> storedTheme, themeIcon |-> themeIcon]

\* toggleTheme(): the click listener of both theme toggles.
toggleTheme ==
    LET newTheme == IF currentTheme = "dark" THEN "light" ELSE "dark"
        t == setTheme(newTheme, storedTheme)
    IN /\ transitionTimers < MaxThemeTimers
       /\ currentTheme' = t.currentTheme
       /\ dataTheme' = t.dataTheme
       /\ storedTheme' = t.storedTheme
       /\ themeIcon' = t.themeIcon
       /\ bodyTransition' = "all 0.3s ease"
       /\ transitionTimers' = transitionTimers + 1
       /\ themeTrail' = IF Len(themeTrail) < 2
                        THEN Append(themeTrail, ThemeState)
                        ELSE <<themeTrail[2], ThemeState>>
       /\ UNCHANGED <<pageVars, sceneVars, scrollVars, formVars, revealVars>>

\* A 300ms timer of toggleTheme fires.
TransitionTimer ==
    /\ transitionTimers > 0
    /\ transitionTimers' = transitionTimers - 1
    /\ bodyTransition' = ""
    /\ UNCHANGED <<currentTheme, dataTheme, storedTheme, themeIcon, themeTrail>>
    /\ UNCHANGED <<pageVars, sceneVars, scrollVars, formVars, revealVars>>

(***************************************************************************)
(* Viewport Observer                                                       *)
(***************************************************************************)
\* Elements of the static page matching '.glass-card, .skill-item,
\* .project-card, .certificate-card' when setupAnimations runs; the
\* projects container is still empty then.
StaticElements == {"glassCard", "skillItem", "certificateCard"}
SkillItems == {"skillItem"}

\* The element of the i-th card appended by renderProjects; it carries the
\* classes project-card and glass-card.
CardIds == <<"card1", "card2", "card3", "card4">>
CardElements == {CardIds[i] : i \in 1..Len(cards)}

\* classList.add('fade-in-up') on every target.
classListAdd_Toggle(marked, targets) == (marked \ targets) \cup (targets \ marked)

classListAdd(marked, targets) == marked \cup targets

\* The IntersectionObserver callback with a batch of entries: entries maps
\* each target of the batch to its isIntersecting.
ObserverCallback(entries) ==
    LET hit == {e \in DOMAIN entries : entries[e]}
        bars == Cardinality(hit \cap SkillItems)
    IN /\ DOMAIN entries # {}
       /\ DOMAIN entries \subseteq observed
       /\ skillTimers + bars <= MaxSkillTimers
       /\ revealed' = classListAdd(revealed, hit)
       /\ skillTimers' = skillTimers + bars
       /\ UNCHANGED <<observed, barWidth>>
       /\ UNCHANGED <<pageVars, sceneVars, scrollVars, formVars, themeVars>>

\* A 300ms timer of animateSkillBar fires: the bar gets its data-skill width.
SkillBarTimer ==
    /\ skillTimers > 0
    /\ skillTimers' = skillTimers - 1
    /\ barWidth' = "data-skill%"
    /\ UNCHANGED <<observed, revealed>>
    /\ UNCHANGED <<pageVars, sceneVars, scrollVars, formVars, themeVars>>

(***************************************************************************)
(* Initial states: the page right after "new PortfolioApp()" returned,     *)
(* every synchronous setup step done and the project fetch in flight.      *)
(***************************************************************************)
InitPage ==
    /\ initPc = "awaitFetch"
    /\ response = NoResponse
    /\ projects = << >>
    /\ cards = << >>

InitScene ==
    /\ isWebGLEnabled = FALSE
    /\ webglScene = FALSE
    /\ resizeInstalled = FALSE
    /\ canvasDisplay = ""
    /\ cameraAspect = 0
    /\ rotX = 0 /\ rotY = 0 /\ rotZ = 0
    /\ renders = 0
    /\ docHidden = FALSE

InitScroll ==
    /\ scrollInstalled = FALSE
    /\ ticking = FALSE
    /\ rafQueue = << >>
    /\ scrollY = 0
    /\ heroTransform = -1
    /\ navbarBg = ""
    /\ activeLinks = {}
    /\ scrollEvents = 0 /\ effectEvents = 0 /\ handleRuns = 0
    /\ heroUpdates = 0 /\ zRotUpdates = 0 /\ navUpdates = 0 /\ headerUpdates = 0

InitForm ==
    /\ values = [f \in Fields |-> << >>]
    /\ marks = [f \in Fields |-> {}]
    /\ feedback = [f \in Fields |-> ""]
    /\ toastShows = 0
    /\ timers = << >>
    /\ location = NoLocation
    /\ navigations = 0
    /\ resets = 0
    /\ lastOp = [op |-> "none", field |-> ""]

\* setupTheme() was run with the stored value store.
InitTheme(store) ==
    LET t == setupTheme(store)
    IN /\ currentTheme = t.currentTheme
       /\ dataTheme = t.dataTheme
       /\ storedTheme = t.storedTheme
       /\ themeIcon = t.themeIcon
       /\ bodyTransition = ""
       /\ transitionTimers = 0
       /\ themeTrail = << >>

\* setupAnimations() has observed the static elements.
InitReveal ==
    /\ observed = StaticElements
    /\ revealed = {}
    /\ skillTimers = 0
    /\ barWidth = ""

(***************************************************************************)
(* Spec: start-up, scrolling, frames, resizing and tab visibility on any   *)
(* device; the form is left alone.                                         *)
(***************************************************************************)
Init ==
    /\ InitPage /\ InitScene /\ InitScroll /\ InitForm
    /\ InitTheme(Null) /\ InitReveal
    /\ required = Fields
    /\ innerWidth \in Widths
    /\ webglSupported \in BOOLEAN
    /\ canvasPresent \in BOOLEAN

Next ==
    \/ \E body \in Bodies : FetchResolved(body)
    \/ FetchRejected
    \/ JsonParsed
    \/ JsonFailed
    \/ JsonNotArray
    \/ \E y \in ScrollPositions : ScrollEvent(y)
    \/ Frame
    \/ \E w \in Widths : Resize(w)
    \/ VisibilityChange

Spec == Init /\ [][Next]_vars

(***************************************************************************)
(* SpecForm: the contact form on a desktop page, for the sample values.    *)
(***************************************************************************)
NameValues == {<< >>, <<"a">>}
EmailValues == {<< >>, <<"a">>, <<"a", "@", "a", ".", "a">>}
MessageValues == {<< >>, <<"a">>}
SampleValues(f) ==
    CASE f = "contactName" -> NameValues
      [] f = "contactEmail" -> EmailValues
      [] f = "contactMessage" -> MessageValues
RequiredLayouts == {Fields, Fields \ {"contactEmail"}}

InitDesktop ==
    /\ InitPage /\ InitScene /\ InitScroll
    /\ InitReveal
    /\ innerWidth = Breakpoint + 256
    /\ webglSupported = TRUE
    /\ canvasPresent = TRUE

FormInit ==
    /\ InitDesktop /\ InitForm /\ InitTheme(Null)
    /\ required \in RequiredLayouts

FormNext ==
    \/ \E f \in Fields : \E v \in SampleValues(f) : InputEvent(f, v)
    \/ \E f \in Fields : BlurEvent(f)
    \/ SubmitEvent
    \/ MailtoTimer

SpecForm == FormInit /\ [][FormNext]_vars

(***************************************************************************)
(* SpecField: validateField on one field holding any string of at most     *)
(* MaxLen characters, with any combination of required attributes.         *)
(***************************************************************************)
FieldInit ==
    /\ InitDesktop /\ InitForm /\ InitTheme(Null)
    /\ required \in SUBSET Fields

FieldNext ==
    \/ /\ lastOp.op # "input"
       /\ \A g \in Fields : values[g] = << >>
       /\ \E f \in Fields :
             /\ lastOp.op = "none" \/ lastOp.field = f
             /\ \E v \in Str(MaxLen) : InputEvent(f, v)
    \/ \E f \in Fields :
          /\ lastOp.op = "none" \/ lastOp = [op |-> "input", field |-> f]
          /\ BlurEvent(f)

SpecField == FieldInit /\ [][FieldNext]_vars

(***************************************************************************)
(* SpecPage: theme toggling and reveal-on-scroll while and after the        *)
(* projects load, for any stored theme preference.                         *)
(***************************************************************************)
EntryBatches == UNION {[T -> BOOLEAN] : T \in (SUBSET observed) \ {{}}}

PageInit ==
    /\ InitDesktop /\ InitForm
    /\ required = Fields
    /\ \E store \in StoredValues : InitTheme(store)

PageNext ==
    \/ \E body \in Bodies : FetchResolved(body)
    \/ FetchRejected
    \/ JsonParsed
    \/ JsonFailed
    \/ JsonNotArray
    \/ toggleTheme
    \/ TransitionTimer
    \/ \E entries \in EntryBatches : ObserverCallback(entries)
    \/ SkillBarTimer

SpecPage == PageInit /\ [][PageNext]_vars

(***************************************************************************)
(* SpecStartup: init() from the pending fetch to its end on any device,    *)
(* with one event of each listener registered before the fetch; a fetch    *)
(* that was started settles, and so does response.json().                  *)
(***************************************************************************)
FetchSettles ==
    \/ \E body \in Bodies : FetchResolved(body)
    \/ FetchRejected
    \/ JsonParsed
    \/ JsonFailed
    \/ JsonNotArray

StartupInit ==
    /\ Init

StartupNext ==
    \/ FetchSettles
    \/ toggleTheme
    \/ ScrollEvent(650)
    \/ ObserverCallback([e \in {"glassCard"} |-> TRUE])
    \/ BlurEvent("contactName")

SpecStartup == StartupInit /\ [][StartupNext]_vars /\ WF_vars(FetchSettles)

(***************************************************************************)
(* Properties of the Scroll Coordinator and the Particle Scene (Spec)      *)
(***************************************************************************)
PendingScrollUpdates == Count(rafQueue, "scrollUpdate")
PendingAnimate == Count(rafQueue, "animate")

\* C1: however many scroll events the setupScrollEffects listener gets
\* before the next display frame, exactly one frame callback is scheduled;
\* at most one scroll update is ever pending, ticking is true exactly when
\* one is pending, and ticking goes back to false only in a step in which
\* handleScrollEffects has run.
C1_OnePendingUpdate ==
    /\ PendingScrollUpdates <= 1
    /\ ticking <=> (PendingScrollUpdates = 1)
    /\ effectEvents >= 1 => PendingScrollUpdates = 1

C1_ScrollCoalescing ==
    /\ []C1_OnePendingUpdate
    /\ [][(ticking /\ ~ticking') => (handleRuns' = 1 /\ PendingScrollUpdates' = 0)]_vars

\* C1 witness: a frame has run the update, and since then several scroll
\* events have arrived and a single callback is pending.
C1_Witness ==
    /\ scrollInstalled
    /\ handleRuns = 1
    /\ effectEvents >= 2
    /\ ticking
    /\ PendingScrollUpdates = 1

\* C2: once setupWebGL has built the scene (width > 768, WebGL supported,
\* canvas present), the frame loop is active: while isWebGLEnabled is true
\* an animate callback is pending for the next frame.
C2_FrameLoopActive ==
    (webglScene /\ isWebGLEnabled) => PendingAnimate >= 1

\* C3: after a resize back to a width > 768 has re-enabled the scene and
\* shown the canvas again, the camera aspect is the one of the new width
\* and the frame loop runs again: an animate callback is pending.
C3_ResumeRestartsLoop ==
    (webglScene /\ isWebGLEnabled /\ canvasDisplay = "block")
        => (cameraAspect = innerWidth /\ PendingAnimate >= 1)

\* C4: a step that hides the document while the scene is enabled disables
\* it, and a step that shows the document again leaves the built scene
\* enabled on a wide viewport.
C4_HiddenSuspends ==
    [][ /\ (~docHidden /\ docHidden' /\ webglScene /\ isWebGLEnabled)
            => ~isWebGLEnabled'
        /\ (docHidden /\ ~docHidden' /\ webglScene /\ innerWidth > Breakpoint)
            => isWebGLEnabled' ]_vars

Blank(raw) == \A i \in 1..Len(raw) : raw[i] = " "

EmailShape(raw) ==
    \E lo \in 1..Len(raw) : \E hi \in lo..Len(raw) :
        /\ \A k \in 1..Len(raw) : (raw[k] = " ") <=> (k < lo \/ k > hi)
        /\ Cardinality({k \in lo..hi : raw[k] = "@"}) = 1
        /\ raw[lo] # "@"
        /\ \E p \in lo..hi : \E d \in lo..hi :
              raw[p] = "@" /\ raw[d] = "." /\ p + 1 < d /\ d < hi

ExpectedMessage(f, raw) ==
    IF f \in required /\ Blank(raw) THEN RequiredMsg
    ELSE IF FieldType(f) = "email" /\ ~Blank(raw) /\ ~EmailShape(raw) THEN EmailMsg
    ELSE ""

\* The marks and feedback of field f are those of a validateField call on raw.
Validated(f, raw, ms, fb) ==
    IF ExpectedMessage(f, raw) = ""
    THEN ms[f] = {"is-valid"}
    ELSE ms[f] = {"is-invalid"} /\ fb[f] = ExpectedMessage(f, raw)

\* C6: after validateField ran on a field (its blur listener), the field is
\* invalid with "This field is required." when it is required and its trimmed
\* value is empty, else invalid with "Please enter a valid email address."
\* when it is of type email, non-empty and not of the e-mail pattern, else
\* valid; the field carries exactly the one mark of the verdict, whatever it
\* carried before.
C6_FieldVerdict ==
    \A f \in Fields :
        lastOp = [op |-> "blur", field |-> f] => Validated(f, values[f], marks, feedback)

\* C6 witness: an e-mail field holding "a@a" was validated and is marked
\* invalid with the e-mail message.
C6_Witness ==
    /\ lastOp = [op |-> "blur", field |-> "contactEmail"]
    /\ values["contactEmail"] = <<"a", "@", "a">>
    /\ marks["contactEmail"] = {"is-invalid"}
    /\ feedback["contactEmail"] = EmailMsg

\* The value field f held when the latest accepted submit read the form.
SubmittedValue(f) ==
    LET d == timers[Len(timers)]
    IN CASE f = "contactName" -> d.name
         [] f = "contactEmail" -> d.email
         [] f = "contactMessage" -> d.message

\* C7: validateForm returns false exactly when some required field is empty
\* or malformed, and one call validates every required field: after a
\* rejected submit each required field carries the mark and message of its
\* own verdict; a submit is accepted only with every required field valid.
C7_ValidateFormAllFields ==
    /\ lastOp.op = "rejected" =>
          /\ \E f \in required : ExpectedMessage(f, values[f]) # ""
          /\ \A f \in required : Validated(f, values[f], marks, feedback)
    /\ lastOp.op = "submitted" =>
          \A f \in required : ExpectedMessage(f, SubmittedValue(f)) = ""

\* C7 witness: a rejected submit left the first required field valid and the
\* two after it invalid, each with its own message.
C7_Witness ==
    /\ lastOp.op = "rejected"
    /\ required = Fields
    /\ marks["contactName"] = {"is-valid"}
    /\ marks["contactEmail"] = {"is-invalid"} /\ feedback["contactEmail"] = EmailMsg
    /\ marks["contactMessage"] = {"is-invalid"}
    /\ feedback["contactMessage"] = RequiredMsg

\* C8: a submit event on a form with an empty or malformed required field
\* shows no toast, schedules no mailto timer, navigates nowhere and does not
\* reset the form: values, toast count, timers, reset count and location
\* stay as they were; only marks and feedback may change.
C8_RejectedSubmitAborts ==
    [][ (/\ lastOp'.op \in {"rejected", "submitted"}
         /\ \E f \in required : ExpectedMessage(f, values[f]) # "")
        => UNCHANGED <<values, toastShows, timers, resets, location, navigations>> ]_vars

\* C8 witness: a submit was rejected; nothing was ever shown, scheduled or
\* reset, the name typed is still in the form, and the empty message field
\* got its invalid mark.
C8_Witness ==
    /\ lastOp.op = "rejected"
    /\ toastShows = 0 /\ timers = << >> /\ resets = 0 /\ navigations = 0
    /\ values["contactName"] = <<"a">>
    /\ marks["contactMessage"] = {"is-invalid"}

\* C9 as stated: the form is reset only after the mailto navigation, so
\* there are never more resets than navigations.
C9_ResetAfterNavigation == resets <= navigations

\* C9 as amended: an accepted submit shows the toast, schedules the mailto
\* navigation, and resets the form and clears the marks in the same handler;
\* the navigation follows later, so every navigation comes after the reset
\* of its submit, and the navigation itself leaves the form as it is.
C9_ResetBeforeNavigation ==
    /\ [](/\ toastShows = resets
          /\ navigations + Len(timers) = resets
          /\ lastOp.op = "submitted" =>
                /\ timers # << >>
                /\ \A f \in Fields : values[f] = << >> /\ marks[f] = {})
    /\ [][navigations' # navigations =>
             /\ navigations < resets
             /\ UNCHANGED <<values, marks, resets, toastShows>>]_vars

\* C9 witness: the navigation of an accepted submit has happened, after the
\* form had been reset.
C9_Witness ==
    /\ lastOp.op = "navigated"
    /\ toastShows = 1 /\ resets = 1 /\ navigations = 1
    /\ location # NoLocation

\* C10: the blur listener always validates its field; the input listener
\* validates its field only when the field carries is-invalid, and otherwise
\* changes no mark and no feedback text, whatever the new value is.
C10_LiveRevalidation ==
    [][ \A f \in Fields :
          /\ lastOp' = [op |-> "blur", field |-> f]
                => Validated(f, values'[f], marks', feedback')
          /\ lastOp' = [op |-> "input", field |-> f]
                => IF "is-invalid" \in marks[f]
                   THEN Validated(f, values'[f], marks', feedback')
                   ELSE marks' = marks /\ feedback' = feedback ]_vars

\* C10 witness: the e-mail field, marked valid, was edited to the malformed
\* "a" and still carries is-valid alone.
C10_Witness ==
    /\ lastOp = [op |-> "input", field |-> "contactEmail"]
    /\ values["contactEmail"] = <<"a">>
    /\ marks["contactEmail"] = {"is-valid"}

(***************************************************************************)
(* Properties of the Project Renderer (Spec)                               *)
(***************************************************************************)
Titles(cs) == [i \in 1..Len(cs) |-> cs[i].title]
FetchWasRejected == initPc = "done" /\ response = NoResponse

\* C11: once loadProjects has completed, the container holds one card per
\* entry of this.projects, in order, card i (from 0) with delay i * 0.1s; a
\* rejected fetch ends with the 4 fallback projects in their order, a fetch
\* that succeeds with an empty array ends with no card.
C11_CardsFollowProjects ==
    initPc = "done" =>
        /\ Len(cards) = Len(projects)
        /\ \A i \in 1..Len(cards) :
              cards[i].title = projects[i] /\ cards[i].delay = i - 1
        /\ FetchWasRejected =>
              /\ Len(cards) = 4
              /\ Titles(cards) = <<"JAVA IN MY STYLE",
                                   "JAVASCRIPT INTERMEDIATE IN MY STYLE",
                                   "ML IN MY STYLE", "AI IN MY STYLE">>
        /\ (response.ok /\ response.kind = "array" /\ response.items = << >>) =>
              cards = << >>

\* C11 witness: the fetch was rejected and the fourth fallback card is in
\* place with delay 0.3s.
C11_Witness ==
    /\ FetchWasRejected
    /\ Len(cards) = 4
    /\ cards[4] = [title |-> "AI IN MY STYLE", delay |-> 3]

\* C12: a fetch that resolves with a non-success status, whatever its body,
\* or with a body that is no parsable JSON array, ends with the 4 fallback
\* projects in the gallery.
C12_ErrorsShowFallback ==
    (/\ initPc = "done"
     /\ response # NoResponse
     /\ ~response.ok \/ response.kind # "array")
        => Titles(cards) = fallbackProjects

(***************************************************************************)
(* Properties of the Theme Store (SpecPage)                                *)
(***************************************************************************)
\* C13: after setupTheme and after any sequence of toggleTheme calls, the
\* persisted portfolio-theme value, the data-theme attribute and
\* currentTheme are equal, and toggleTheme changes all three to the same
\* value.
C13_ThemeConsistent ==
    /\ storedTheme = currentTheme
    /\ dataTheme = currentTheme
    /\ themeTrail # << >> => currentTheme # themeTrail[Len(themeTrail)].currentTheme

\* C13 witness: a toggle from the default has applied and persisted light.
C13_Witness ==
    /\ Len(themeTrail) = 1
    /\ themeTrail[1].currentTheme = "dark"
    /\ currentTheme = "light" /\ dataTheme = "light" /\ storedTheme = "light"

\* C14: two consecutive toggleTheme calls bring currentTheme, the data-theme
\* attribute and the persisted value back to what they were before them.
C14_ToggleTwiceRestores ==
    Len(themeTrail) = 2 =>
        /\ currentTheme = themeTrail[1].currentTheme
        /\ dataTheme = themeTrail[1].dataTheme
        /\ storedTheme = themeTrail[1].storedTheme

\* C15: whatever was stored at load, the applied and persisted theme is
\* "dark" or "light" in every reachable state.
C15_ThemeIsDarkOrLight ==
    /\ currentTheme \in {"dark", "light"}
    /\ dataTheme \in {"dark", "light"}
    /\ storedTheme \in {"dark", "light"}

(***************************************************************************)
(* Properties of the Viewport Observer (SpecPage)                          *)
(***************************************************************************)
\* C16: no step removes fade-in-up from an element that carries it, whatever
\* the observer callback is given, and a callback whose intersecting
\* entries are all revealed already leaves the set of revealed elements as
\* it is.
C16_RevealMonotonic ==
    [][ /\ revealed \subseteq revealed'
        /\ \A entries \in EntryBatches :
              (ObserverCallback(entries)
               /\ {e \in DOMAIN entries : entries[e]} \subseteq revealed)
                  => revealed' = revealed ]_vars

\* C16 witness: every observed element is revealed and a skill-bar timer of
\* a repeated callback is pending after an earlier one has fired.
C16_Witness ==
    /\ revealed = observed
    /\ barWidth # ""
    /\ skillTimers > 0

\* C18: every project card rendered into the container is among the
\* elements the observer observes.
C18_CardsObserved ==
    initPc = "done" => CardElements \subseteq observed

(***************************************************************************)
(* Properties of Navigation (Spec) and of start-up (SpecStartup)           *)
(***************************************************************************)
SectionsAt(pos) ==
    {Sections[i].id : i \in {k \in 1..Len(Sections) :
        pos >= Sections[k].top /\ pos < Sections[k].top + Sections[k].height}}

\* C17: once a scroll event has been handled, the active nav links are
\* exactly the links of the sections whose span holds scrollY + 100: one
\* link inside a section, none between sections.
C17_ActiveLinkFollowsScroll ==
    navbarBg # "" => activeLinks = SectionsAt(scrollY + NavOffset)

\* C19: init() runs setupWebGL and setupScrollEffects exactly when the
\* project load has completed, with the projects (fetched or fallback)
\* rendered; before that nothing of the two is set up, while the theme
\* toggle, the navigation scroll listener, the observer callback and the
\* form listeners can run; and every fetch outcome leads to the completed
\* start-up.
C19_Completed ==
    /\ scrollInstalled
    /\ Len(cards) = Len(projects)
    /\ \A i \in 1..Len(cards) : cards[i].title = projects[i]
    /\ response.kind # "array" => Len(cards) = 4
    /\ isWebGLEnabled <=> (innerWidth > Breakpoint /\ webglSupported)
    /\ webglScene <=> (innerWidth > Breakpoint /\ webglSupported /\ canvasPresent)

C19_Pending ==
    /\ initPc \in {"awaitFetch", "awaitJson"}
    /\ ~scrollInstalled /\ ~isWebGLEnabled /\ ~webglScene
    /\ cards = << >>
    /\ transitionTimers < MaxThemeTimers => ENABLED toggleTheme
    /\ scrollEvents < MaxScrollEvents => ENABLED ScrollEvent(650)
    /\ ENABLED ObserverCallback([e \in {"glassCard"} |-> TRUE])
    /\ ENABLED BlurEvent("contactName")

C19_StartupSequence ==
    /\ [](IF initPc = "done" THEN C19_Completed ELSE C19_Pending)
    /\ <>(initPc = "done")

\* C19 witness: the fetch is still pending and each of the four listeners
\* has already acted.
C19_Witness ==
    /\ initPc = "awaitFetch"
    /\ currentTheme = "light"
    /\ activeLinks = {"about"}
    /\ "glassCard" \in revealed
    /\ marks["contactName"] = {"is-invalid"}

(***************************************************************************)
(* Properties of the mailto navigation (SpecForm)                          *)
(***************************************************************************)
\* Percent-decoding of the characters modelled.
DecodeChar(t) ==
    CASE t = "%20" -> " "
      [] t = "%40" -> "@"
      [] t = "%3A" -> ":"
      [] t = "%0A" -> "\n"
      [] OTHER -> t
Decode(str) == [i \in 1..Len(str) |-> DecodeChar(str[i])]

\* The link, decoded, reads as the subject and body texts of these values.
LinkCarries(link, vals) ==
    /\ Decode(link.subject) =
          <<"Portfolio", " ", "Contact", " ", "from", " ">> \o vals["contactName"]
    /\ Decode(link.body) =
          <<"Name", ":", " ">> \o vals["contactName"]
             \o <<"\n", "Email", ":", " ">> \o vals["contactEmail"]
             \o <<"\n", "\n", "Message", ":", "\n">> \o vals["contactMessage"]

Links(ts) == [i \in 1..Len(ts) |-> ts[i].link]

\* C20: an accepted submit schedules a navigation of its own whose mailto
\* URI carries the name, email and message the form held when it was
\* submitted, and leaves the navigations scheduled before untouched; no
\* edit, blur, rejected submit or form reset changes a scheduled URI; and
\* each navigation goes to the URI scheduled first among those pending.
C20_MailtoSnapshot ==
    [][ /\ lastOp'.op = "submitted" =>
              /\ Len(timers') = Len(timers) + 1
              /\ Links(SubSeq(timers', 1, Len(timers))) = Links(timers)
              /\ LinkCarries(timers'[Len(timers')].link, values)
        /\ lastOp'.op \in {"input", "blur", "rejected"} =>
              Links(timers') = Links(timers) /\ location' = location
        /\ lastOp'.op = "navigated" =>
              /\ timers # << >>
              /\ location'.link = timers[1].link
              /\ Links(timers') = Links(Tail(timers)) ]_vars

\* C20 witness: two submits with different e-mail values were accepted
\* within the delay, the form was edited after its reset, and the first
\* navigation went to the first submit's URI while the second is pending.
C20_Witness ==
    /\ lastOp.op = "navigated"
    /\ navigations = 1
    /\ Len(timers) = 1
    /\ location.link # timers[1].link
    /\ values["contactName"] = <<"a">>
    /\ LinkCarries(location.link,
                   [f \in Fields |-> IF f = "contactEmail"
                                     THEN <<"a", "@", "a", ".", "a">>
                                     ELSE <<"a">>])

====
